---- MODULE Spec2Model ----
(***************************************************************************)
(* The DOPtools command line interface (src/doptools/cli/main.py) as a     *)
(* state machine.  One behaviour is one invocation of one command: Start   *)
(* picks the command and its options, the command's body then runs one     *)
(* statement at a time (pc), every call that can raise either returns or   *)
(* raises, and a raised exception is taken by the command's                *)
(* `except Exception` clause, which wraps it in a click.ClickException.    *)
(***************************************************************************)
EXTENDS Integers, Sequences, FiniteSets, TLC

\* ------------------------------------------------------------------ bounds
MaxRows == 2

\* ------------------------------------------------------------- input data
\* Column names a table on disk may carry.
ColNames == {"SMILES", "ID", "solvent"}

\* Row labels of a loaded table.  pd.read_csv(input_file, sep=separator) gives
\* the RangeIndex 0..n-1, unless the data rows hold one more field than the
\* header: then the first field of each row becomes the row label.
Labels == 0..MaxRows

Range(n) == [i \in 1..n |-> i - 1]

Tables ==
  UNION { [n : {k}, cols : SUBSET ColNames, index : [1..k -> Labels]] : k \in 0..MaxRows }

NoTable == [n |-> 0, cols |-> {}, index |-> <<>>]

\* A missing value (NaN) and the cell of column c in file row i (0-based).
NaN == <<"NaN", 0>>
Cell(c, i) == <<c, i>>
IntCell(i) == <<"int", i>>

\* df[c]: a Series carrying the table's row labels.
Column(t, c) == [index |-> t.index, values |-> [i \in 1..t.n |-> Cell(c, i - 1)]]

\* df[c].tolist(): the values only.
ToList(t, c) == [i \in 1..t.n |-> Cell(c, i - 1)]

HasDuplicates(s) == \E i, j \in 1..Len(s) : i # j /\ s[i] = s[j]

\* ------------------------------------------------------------ the options
DefaultOpts ==
  [smiles_column |-> "SMILES", id_column |-> "ID", verbose |-> FALSE,
   lower |-> 0, upper |-> 3, nbits |-> 1024, radius |-> 2,
   descriptor_type |-> "circus", output_file |-> FALSE, show |-> FALSE,
   x_column |-> FALSE, y_column |-> FALSE, smiles |-> <<"CCO", 0>>]

CircusOpts ==
  { [DefaultOpts EXCEPT !.smiles_column = s, !.id_column = i, !.verbose = v,
                        !.lower = b[1], !.upper = b[2]] :
      s \in {"SMILES", "solvent"}, i \in {"ID", "name"}, v \in BOOLEAN,
      b \in {<<0, 3>>, <<2, 1>>} }

RdkitOpts ==
  { [DefaultOpts EXCEPT !.smiles_column = s, !.id_column = i, !.verbose = v,
                        !.nbits = nb] :
      s \in {"SMILES", "solvent"}, i \in {"ID", "name"}, v \in BOOLEAN,
      nb \in {1024, 0} }

ComplexOpts == { [DefaultOpts EXCEPT !.verbose = v] : v \in BOOLEAN }

StubOpts == { [DefaultOpts EXCEPT !.verbose = v] : v \in BOOLEAN }

PlotOpts ==
  { [DefaultOpts EXCEPT !.x_column = x, !.y_column = y, !.output_file = o,
                        !.show = w] :
      x \in BOOLEAN, y \in BOOLEAN, o \in BOOLEAN, w \in BOOLEAN }

ColoratomOpts ==
  { [DefaultOpts EXCEPT !.descriptor_type = t, !.output_file = o, !.show = w,
                        !.smiles = m] :
      t \in {"circus", "morgan", "rdkfp"}, o \in BOOLEAN, w \in BOOLEAN,
      m \in {<<"CCO", 0>>, <<"c1ccccc1", 0>>} }

InitOpts ==
  { [DefaultOpts EXCEPT !.descriptor_type = t] : t \in {"circus", "rdkit", "complex"} }

\* ------------------------------------------------ configuration documents
\* The keys a composite configuration consists of.
CompositeKeys == {"associator", "structure_columns", "fmt"}

\* The document `init` writes for each --descriptor-type.
InitConfig(t) ==
  IF t = "complex"
  THEN [keys |-> {"name", "description", "associator", "structure_columns", "fmt"},
        associator |-> <<"molecules">>, inner |-> "circus"]
  ELSE [keys |-> {"name", "description", "descriptor"},
        associator |-> <<>>, inner |-> "none"]

\* The documents --config may name: hand-written composite configurations
\* over one or two columns, and the one `init` writes.
Configs ==
  { [keys |-> CompositeKeys, associator |-> a, inner |-> t] :
      a \in {<<"SMILES">>, <<"SMILES", "solvent">>}, t \in {"circus", "morgan"} }
  \cup {InitConfig("complex")}

\* ------------------------------------------------------------- the state
VARIABLES
  cmd,            \* the command invoked, "none" before Start
  pc,             \* the statement of the command's body about to run
  opts,           \* the command's options
  df,             \* the loaded table
  config,         \* the loaded configuration document (complex)
  tstate,         \* the descriptor transformer: "None", "Constructed", "Fit"
  fits,           \* the arguments of the fit calls made, in order
  explains,       \* the arguments of the explain calls made, in order
  descriptors,    \* the feature table, the ID column once inserted
  out,            \* the output file: Absent, or what was written
  trace,          \* the collaborator calls made, in order
  err,            \* the exception in flight (its str())
  exit,           \* "running", "ok" (exit 0), "fail" (exit 1)
  msg,            \* the message of the ClickException click shows
  argv,           \* sys.argv
  original_argv,  \* the stub commands' local original_argv
  nraised,        \* exceptions raised inside the command body
  ncaught,        \* exceptions taken by the command's except clause
  nhandled        \* exceptions taken by a handler inside the body (info)

vars == <<cmd, pc, opts, df, config, tstate, fits, explains, descriptors, out,
          trace, err, exit, msg, argv, original_argv, nraised, ncaught, nhandled>>

Absent == [written |-> FALSE, kind |-> "none", columns |-> <<>>, nrows |-> 0,
           id |-> <<>>, keys |-> {}]
NoFeatures == [index |-> <<>>, columns |-> <<>>, id |-> <<>>]
NoConfig == [keys |-> {}, associator |-> <<>>, inner |-> "none"]
InitialArgv == <<"doptools">>

Init ==
  /\ cmd = "none" /\ pc = "idle" /\ opts = DefaultOpts
  /\ df = NoTable /\ config = NoConfig
  /\ tstate = "None" /\ fits = <<>> /\ explains = <<>>
  /\ descriptors = NoFeatures /\ out = Absent /\ trace = <<>>
  /\ err = <<>> /\ exit = "running" /\ msg = <<>>
  /\ argv = InitialArgv /\ original_argv = <<>>
  /\ nraised = 0 /\ ncaught = 0 /\ nhandled = 0

\* ---------------------------------------------------- statements, generic
\* A statement that returns: control moves to `next`.
Return(next) == pc' = next /\ UNCHANGED <<err, nraised>>

\* A statement that raises e: control moves to the command's except clause.
Raise(e) == pc' = "except" /\ err' = e /\ nraised' = nraised + 1

\* A call into a collaborator or the file system: it returns or it raises.
Call(e, next) == Return(next) \/ Raise(e)

\* `if cond: click.echo(...)`: the echo writes to stdout, and raises when
\* stdout is closed.
Echo(cond, next) == Return(next) \/ (cond /\ Raise(<<"BrokenPipeError">>))

\* Everything but pc, err, nraised and the variables named by an action.
Frame(changed) ==
  /\ (IF "cmd" \in changed THEN TRUE ELSE UNCHANGED cmd)
  /\ (IF "opts" \in changed THEN TRUE ELSE UNCHANGED opts)
  /\ (IF "df" \in changed THEN TRUE ELSE UNCHANGED df)
  /\ (IF "config" \in changed THEN TRUE ELSE UNCHANGED config)
  /\ (IF "tstate" \in changed THEN TRUE ELSE UNCHANGED tstate)
  /\ (IF "fits" \in changed THEN TRUE ELSE UNCHANGED fits)
  /\ (IF "explains" \in changed THEN TRUE ELSE UNCHANGED explains)
  /\ (IF "descriptors" \in changed THEN TRUE ELSE UNCHANGED descriptors)
  /\ (IF "out" \in changed THEN TRUE ELSE UNCHANGED out)
  /\ (IF "trace" \in changed THEN TRUE ELSE UNCHANGED trace)
  /\ (IF "argv" \in changed THEN TRUE ELSE UNCHANGED argv)
  /\ (IF "original_argv" \in changed THEN TRUE ELSE UNCHANGED original_argv)
  /\ (IF "nhandled" \in changed THEN TRUE ELSE UNCHANGED nhandled)
  /\ UNCHANGED <<exit, msg, ncaught>>

\* ------------------------------------------------- the collaborators' side
\* The feature table a transformer returns for a list of structures: one row
\* per structure, in order, under a fresh RangeIndex.
FeatureTable(structures, names) ==
  [index |-> Range(Len(structures)), columns |-> names, id |-> <<>>]

CircusFeatures == <<"frag0", "frag1">>
FingerprintFeatures == <<"bit0", "bit1">>

\* Construction-time parameter validation of the two transformer variants.
ValidCircus(lower, upper) == 0 <= lower /\ lower <= upper
ValidFingerprint(nbits, radius) == nbits > 0 /\ radius >= 0

\* ---------------------------------------------------- DataFrame.insert
Ok(v) == [raised |-> FALSE, e |-> <<>>, value |-> v]
Failed(e, v) == [raised |-> TRUE, e |-> e, value |-> v]

\* A Series assigned to a frame is aligned on the frame's row labels: a row
\* whose label the Series lacks gets NaN, a label the frame lacks is dropped.
Reindex(series, idx) ==
  IF series.index = idx THEN series.values
  ELSE [i \in 1..Len(idx) |->
          IF \E j \in 1..Len(series.index) : series.index[j] = idx[i]
          THEN series.values[CHOOSE j \in 1..Len(series.index) : series.index[j] = idx[i]]
          ELSE NaN]

\* descriptors.insert(0, 'ID', df[id_column])
InsertSeries(d, name, series) ==
  IF \E k \in 1..Len(d.columns) : d.columns[k] = name
  THEN Failed(<<"cannot insert ", name, ", already exists">>, d)
  ELSE IF series.index # d.index /\ HasDuplicates(series.index)
  THEN Failed(<<"cannot reindex on an axis with duplicate labels">>, d)
  ELSE Ok([d EXCEPT !.columns = <<name>> \o d.columns,
                    !.id = Reindex(series, d.index)])

\* descriptors.insert(0, 'ID', range(len(descriptors)))
InsertRange(d, name) ==
  IF \E k \in 1..Len(d.columns) : d.columns[k] = name
  THEN Failed(<<"cannot insert ", name, ", already exists">>, d)
  ELSE Ok([d EXCEPT !.columns = <<name>> \o d.columns,
                    !.id = [i \in 1..Len(d.index) |-> IntCell(i - 1)]])

\* The `# Add IDs if available` statement of circus and rdkit.
AddIDs(d, t, id_column) ==
  IF id_column \in t.cols THEN InsertSeries(d, "ID", Column(t, id_column))
  ELSE InsertRange(d, "ID")

\* descriptors.to_csv(output_file, index=False)
ToCsv(d) ==
  [written |-> TRUE, kind |-> "table", columns |-> d.columns,
   nrows |-> Len(d.index), id |-> d.id, keys |-> {}]

\* ------------------------------------------------------ descriptors circus
CircusEchoLoading ==
  /\ cmd = "circus" /\ pc = "echo_loading"
  /\ Echo(opts.verbose, "load")
  /\ Frame({})

CircusLoad ==
  /\ cmd = "circus" /\ pc = "load"
  /\ trace' = Append(trace, "load")
  /\ \/ \E t \in Tables : df' = t /\ Return("check")
     \/ df' = df /\ Raise(<<"read_csv: cannot parse file">>)
  /\ Frame({"df", "trace"})

\* CircusCheckColumn without its membership test.
CircusCheckColumnSkipped ==
  /\ cmd = "circus" /\ pc = "check"
  /\ Return("echo_loaded")
  /\ Frame({})

CircusCheckColumn ==
  /\ cmd = "circus" /\ pc = "check"
  /\ IF opts.smiles_column \notin df.cols
     THEN Raise(<<"Column '", opts.smiles_column, "' not found in input file">>)
     ELSE Return("echo_loaded")
  /\ Frame({})

CircusEchoLoaded ==
  /\ cmd = "circus" /\ pc = "echo_loaded"
  /\ Echo(opts.verbose, "construct")
  /\ Frame({})

CircusConstruct ==
  /\ cmd = "circus" /\ pc = "construct"
  /\ trace' = Append(trace, "construct")
  /\ IF ValidCircus(opts.lower, opts.upper)
     THEN tstate' = "Constructed" /\ Return("fit")
     ELSE tstate' = tstate /\ Raise(<<"InvalidConfigError">>)
  /\ Frame({"tstate", "trace"})

CircusFit ==
  /\ cmd = "circus" /\ pc = "fit"
  /\ trace' = Append(trace, "fit")
  /\ fits' = Append(fits, ToList(df, opts.smiles_column))
  /\ \/ tstate' = "Fit" /\ Return("transform")
     \/ tstate' = tstate /\ Raise(<<"fit: cannot parse structure">>)
  /\ Frame({"tstate", "fits", "trace"})

CircusTransform ==
  /\ cmd = "circus" /\ pc = "transform"
  /\ trace' = Append(trace, "transform")
  /\ IF tstate # "Fit"
     THEN descriptors' = descriptors /\ Raise(<<"UnfitTransformerError">>)
     ELSE \/ /\ descriptors' = FeatureTable(ToList(df, opts.smiles_column), CircusFeatures)
             /\ Return("insert")
          \/ descriptors' = descriptors /\ Raise(<<"transform: cannot parse structure">>)
  /\ Frame({"descriptors", "trace"})

CircusAddIDs ==
  /\ cmd = "circus" /\ pc = "insert"
  /\ LET r == AddIDs(descriptors, df, opts.id_column)
     IN  /\ descriptors' = r.value
         /\ IF r.raised THEN Raise(r.e) ELSE Return("write")
  /\ Frame({"descriptors"})

CircusWrite ==
  /\ cmd = "circus" /\ pc = "write"
  /\ trace' = Append(trace, "write")
  /\ \/ out' = ToCsv(descriptors) /\ Return("echo_saved")
     \/ out' = out /\ Raise(<<"to_csv: cannot open file">>)
  /\ Frame({"out", "trace"})

CircusEchoSaved ==
  /\ cmd = "circus" /\ pc = "echo_saved"
  /\ Echo(opts.verbose, "return")
  /\ Frame({})

\* ------------------------------------------------------- descriptors rdkit
RdkitEchoLoading ==
  /\ cmd = "rdkit" /\ pc = "echo_loading"
  /\ Echo(opts.verbose, "load")
  /\ Frame({})

RdkitLoad ==
  /\ cmd = "rdkit" /\ pc = "load"
  /\ trace' = Append(trace, "load")
  /\ \/ \E t \in Tables : df' = t /\ Return("check")
     \/ df' = df /\ Raise(<<"read_csv: cannot parse file">>)
  /\ Frame({"df", "trace"})

RdkitCheckColumn ==
  /\ cmd = "rdkit" /\ pc = "check"
  /\ IF opts.smiles_column \notin df.cols
     THEN Raise(<<"Column '", opts.smiles_column, "' not found in input file">>)
     ELSE Return("echo_loaded")
  /\ Frame({})

RdkitEchoLoaded ==
  /\ cmd = "rdkit" /\ pc = "echo_loaded"
  /\ Echo(opts.verbose, "construct")
  /\ Frame({})

RdkitConstruct ==
  /\ cmd = "rdkit" /\ pc = "construct"
  /\ trace' = Append(trace, "construct")
  /\ IF ValidFingerprint(opts.nbits, opts.radius)
     THEN tstate' = "Constructed" /\ Return("transform")
     ELSE tstate' = tstate /\ Raise(<<"InvalidConfigError">>)
  /\ Frame({"tstate", "trace"})

\* fingerprinter.transform(smiles_data), then pd.DataFrame(descriptors)
RdkitTransform ==
  /\ cmd = "rdkit" /\ pc = "transform"
  /\ trace' = Append(trace, "transform")
  /\ \/ /\ descriptors' = FeatureTable(ToList(df, opts.smiles_column), FingerprintFeatures)
        /\ Return("insert")
     \/ descriptors' = descriptors /\ Raise(<<"transform: cannot parse structure">>)
  /\ Frame({"descriptors", "trace"})

RdkitAddIDs ==
  /\ cmd = "rdkit" /\ pc = "insert"
  /\ LET r == AddIDs(descriptors, df, opts.id_column)
     IN  /\ descriptors' = r.value
         /\ IF r.raised THEN Raise(r.e) ELSE Return("write")
  /\ Frame({"descriptors"})

RdkitWrite ==
  /\ cmd = "rdkit" /\ pc = "write"
  /\ trace' = Append(trace, "write")
  /\ \/ out' = ToCsv(descriptors) /\ Return("echo_saved")
     \/ out' = out /\ Raise(<<"to_csv: cannot open file">>)
  /\ Frame({"out", "trace"})

RdkitEchoSaved ==
  /\ cmd = "rdkit" /\ pc = "echo_saved"
  /\ Echo(opts.verbose, "return")
  /\ Frame({})

\* ----------------------------------------------------- descriptors complex
\* ComplexFragmentor(**config): every top-level key of the document becomes a
\* keyword argument of the composite builder.
BuildComposite(c) ==
  IF c.keys = CompositeKeys THEN Ok("Constructed")
  ELSE Failed(<<"TypeError: unexpected keyword argument">>, "None")

\* The name of the feature column the inner transformer of column c yields.
PrefixedFeature(c) ==
  CASE c = "SMILES"    -> "SMILES__frag0"
    [] c = "solvent"   -> "solvent__frag0"
    [] c = "molecules" -> "molecules__frag0"

\* The declared columns the table lacks.
MissingColumns(c, t) == { k \in 1..Len(c.associator) : c.associator[k] \notin t.cols }

\* CompositeTransformer.transform(table): the declared columns are validated
\* against the table, then every inner transformer transforms its column.
CompositeCheck(c, t, st) ==
  IF MissingColumns(c, t) # {}
  THEN Failed(<<"MissingColumnError: ",
                c.associator[CHOOSE k \in MissingColumns(c, t) :
                               \A j \in MissingColumns(c, t) : k <= j]>>, NoFeatures)
  ELSE IF c.inner = "circus" /\ st # "Fit"
  THEN Failed(<<"UnfitTransformerError">>, NoFeatures)
  ELSE Ok([index |-> Range(t.n),
           columns |-> [k \in 1..Len(c.associator) |-> PrefixedFeature(c.associator[k])],
           id |-> <<>>])

ComplexEchoConfig ==
  /\ cmd = "complex" /\ pc = "echo_config"
  /\ Echo(opts.verbose, "load_config")
  /\ Frame({})

ComplexLoadConfig ==
  /\ cmd = "complex" /\ pc = "load_config"
  /\ trace' = Append(trace, "load_config")
  /\ \/ \E c \in Configs : config' = c /\ Return("echo_loading")
     \/ config' = config /\ Raise(<<"json.load: cannot read configuration">>)
  /\ Frame({"config", "trace"})

ComplexEchoLoading ==
  /\ cmd = "complex" /\ pc = "echo_loading"
  /\ Echo(opts.verbose, "load")
  /\ Frame({})

ComplexLoad ==
  /\ cmd = "complex" /\ pc = "load"
  /\ trace' = Append(trace, "load")
  /\ \/ \E t \in Tables : df' = t /\ Return("echo_loaded")
     \/ df' = df /\ Raise(<<"read_csv: cannot parse file">>)
  /\ Frame({"df", "trace"})

ComplexEchoLoaded ==
  /\ cmd = "complex" /\ pc = "echo_loaded"
  /\ Echo(opts.verbose, "construct")
  /\ Frame({})

ComplexConstruct ==
  /\ cmd = "complex" /\ pc = "construct"
  /\ trace' = Append(trace, "construct")
  /\ LET r == BuildComposite(config)
     IN  /\ tstate' = r.value
         /\ IF r.raised THEN Raise(r.e) ELSE Return("transform")
  /\ Frame({"tstate", "trace"})

\* ComplexTransform with the transform's exception swallowed: an empty feature
\* table goes on to be written.
ComplexTransformSwallowed ==
  /\ cmd = "complex" /\ pc = "transform"
  /\ trace' = Append(trace, "transform")
  /\ LET r == CompositeCheck(config, df, tstate)
     IN  descriptors' = r.value /\ Return("write")
  /\ Frame({"descriptors", "trace"})

ComplexTransform ==
  /\ cmd = "complex" /\ pc = "transform"
  /\ trace' = Append(trace, "transform")
  /\ LET r == CompositeCheck(config, df, tstate)
     IN  IF r.raised
         THEN descriptors' = descriptors /\ Raise(r.e)
         ELSE \/ descriptors' = r.value /\ Return("write")
              \/ descriptors' = descriptors /\ Raise(<<"transform: cannot parse structure">>)
  /\ Frame({"descriptors", "trace"})

ComplexWrite ==
  /\ cmd = "complex" /\ pc = "write"
  /\ trace' = Append(trace, "write")
  /\ \/ out' = ToCsv(descriptors) /\ Return("echo_saved")
     \/ out' = out /\ Raise(<<"to_csv: cannot open file">>)
  /\ Frame({"out", "trace"})

ComplexEchoSaved ==
  /\ cmd = "complex" /\ pc = "echo_saved"
  /\ Echo(opts.verbose, "return")
  /\ Frame({})

\* --------------------------------------------------------- models optimize
OptimizeEchoLoading ==
  /\ cmd = "optimize" /\ pc = "echo_loading"
  /\ Echo(opts.verbose, "set_argv")
  /\ Frame({})

\* original_argv = sys.argv; sys.argv = [...]; if verbose: sys.argv.append(...)
OptimizeSetArgv ==
  /\ cmd = "optimize" /\ pc = "set_argv"
  /\ original_argv' = argv
  /\ argv' = <<"launch_optimizer", "--config", "config_file">>
             \o (IF opts.verbose THEN <<"--verbose">> ELSE <<>>)
  /\ Return("echo_stub")
  /\ Frame({"argv", "original_argv"})

OptimizeEcho ==
  /\ cmd = "optimize" /\ pc = "echo_stub"
  /\ Echo(TRUE, "restore")
  /\ Frame({})

OptimizeRestore ==
  /\ cmd = "optimize" /\ pc = "restore"
  /\ argv' = original_argv
  /\ Return("return")
  /\ Frame({"argv"})

\* ---------------------------------------------------------- models rebuild
RebuildEchoLoading ==
  /\ cmd = "rebuild" /\ pc = "echo_loading"
  /\ Echo(opts.verbose, "set_argv")
  /\ Frame({})

RebuildSetArgv ==
  /\ cmd = "rebuild" /\ pc = "set_argv"
  /\ original_argv' = argv
  /\ argv' = <<"rebuilder", "--input", "input_dir", "--output", "output_dir">>
             \o (IF opts.verbose THEN <<"--verbose">> ELSE <<>>)
  /\ Return("echo_stub")
  /\ Frame({"argv", "original_argv"})

RebuildEcho ==
  /\ cmd = "rebuild" /\ pc = "echo_stub"
  /\ Echo(TRUE, "restore")
  /\ Frame({})

RebuildRestore ==
  /\ cmd = "rebuild" /\ pc = "restore"
  /\ argv' = original_argv
  /\ Return("return")
  /\ Frame({"argv"})

\* ----------------------------------------------------------- analysis plot
PlotSetArgv ==
  /\ cmd = "plot" /\ pc = "set_argv"
  /\ original_argv' = argv
  /\ argv' = <<"plotter", "--input", "input_file", "--type", "scatter">>
             \o (IF opts.x_column THEN <<"--x-column", "x">> ELSE <<>>)
             \o (IF opts.y_column THEN <<"--y-column", "y">> ELSE <<>>)
             \o (IF opts.output_file THEN <<"--output", "output_file">> ELSE <<>>)
             \o (IF opts.show THEN <<"--show">> ELSE <<>>)
  /\ Return("echo_stub")
  /\ Frame({"argv", "original_argv"})

PlotEcho ==
  /\ cmd = "plot" /\ pc = "echo_stub"
  /\ Echo(TRUE, "restore")
  /\ Frame({})

PlotRestore ==
  /\ cmd = "plot" /\ pc = "restore"
  /\ argv' = original_argv
  /\ Return("return")
  /\ Frame({"argv"})

\* ------------------------------------------------------ analysis coloratom
Image == [written |-> TRUE, kind |-> "image", columns |-> <<>>, nrows |-> 0,
          id |-> <<>>, keys |-> {}]

ColoratomLoadModel ==
  /\ cmd = "coloratom" /\ pc = "load_model"
  /\ trace' = Append(trace, "load_model")
  /\ Call(<<"pickle.load: cannot read model">>, "echo_analyzing")
  /\ Frame({"trace"})

ColoratomEchoAnalyzing ==
  /\ cmd = "coloratom" /\ pc = "echo_analyzing"
  /\ Echo(TRUE, "construct")
  /\ Frame({})

\* ColoratomConstruct with the circus branch's fit left out.
ColoratomConstructNoFit ==
  /\ cmd = "coloratom" /\ pc = "construct"
  /\ trace' = Append(trace, "construct")
  /\ tstate' = "Constructed"
  /\ Return("coloratom")
  /\ Frame({"tstate", "trace"})

\* The descriptor each --descriptor-type selects; only circus goes on to fit.
ColoratomConstruct ==
  /\ cmd = "coloratom" /\ pc = "construct"
  /\ trace' = Append(trace, "construct")
  /\ tstate' = "Constructed"
  /\ Return(IF opts.descriptor_type = "circus" THEN "fit" ELSE "coloratom")
  /\ Frame({"tstate", "trace"})

ColoratomFit ==
  /\ cmd = "coloratom" /\ pc = "fit"
  /\ trace' = Append(trace, "fit")
  /\ fits' = Append(fits, <<opts.smiles>>)
  /\ \/ tstate' = "Fit" /\ Return("coloratom")
     \/ tstate' = tstate /\ Raise(<<"fit: cannot parse structure">>)
  /\ Frame({"tstate", "fits", "trace"})

ColoratomCreate ==
  /\ cmd = "coloratom" /\ pc = "coloratom"
  /\ trace' = Append(trace, "ColorAtom")
  /\ Call(<<"ColorAtom: bad model">>, "explain")
  /\ Frame({"trace"})

ColoratomExplain ==
  /\ cmd = "coloratom" /\ pc = "explain"
  /\ trace' = Append(trace, "explain")
  /\ explains' = Append(explains, opts.smiles)
  /\ Call(<<"AttributionError">>, "savefig")
  /\ Frame({"explains", "trace"})

ColoratomSavefig ==
  /\ cmd = "coloratom" /\ pc = "savefig"
  /\ IF opts.output_file
     THEN /\ trace' = Append(trace, "savefig")
          /\ \/ out' = Image /\ Return("echo_saved")
             \/ out' = out /\ Raise(<<"savefig: cannot open file">>)
     ELSE trace' = trace /\ out' = out /\ Return("show")
  /\ Frame({"out", "trace"})

ColoratomEchoSaved ==
  /\ cmd = "coloratom" /\ pc = "echo_saved"
  /\ Echo(TRUE, "show")
  /\ Frame({})

ColoratomShow ==
  /\ cmd = "coloratom" /\ pc = "show"
  /\ IF opts.show
     THEN trace' = Append(trace, "show") /\ Call(<<"show: no display">>, "return")
     ELSE trace' = trace /\ Return("return")
  /\ Frame({"trace"})

\* -------------------------------------------------------------------- init
InitBuild ==
  /\ cmd = "init" /\ pc = "build"
  /\ config' = InitConfig(opts.descriptor_type)
  /\ Return("write")
  /\ Frame({"config"})

\* with open(output_file, 'w') as f: json.dump(config, f, indent=2)
InitWrite ==
  /\ cmd = "init" /\ pc = "write"
  /\ trace' = Append(trace, "write")
  /\ \/ /\ out' = [written |-> TRUE, kind |-> "config", columns |-> <<>>,
                   nrows |-> 0, id |-> <<>>, keys |-> config.keys]
        /\ Return("echo_created")
     \/ out' = out /\ Raise(<<"open: cannot open file">>)
  /\ Frame({"out", "trace"})

InitEchoCreated ==
  /\ cmd = "init" /\ pc = "echo_created"
  /\ Echo(TRUE, "return")
  /\ Frame({})

\* -------------------------------------------------------------------- info
InfoImports ==
  /\ cmd = "info" /\ pc = "imports"
  /\ Call(<<"No module named 'sklearn'">>, "echo_versions")
  /\ Frame({})

InfoEchoVersions ==
  /\ cmd = "info" /\ pc = "echo_versions"
  /\ Echo(TRUE, "probe_chython")
  /\ Frame({})

\* try: import m; click.echo("Available")
\* except ImportError: click.echo("Not available")
\* The ImportError is taken here, inside the body; a failing echo is not.
Probe(next) ==
  \E importable \in BOOLEAN, echoed \in BOOLEAN :
    LET n == IF importable THEN 0 ELSE 1
    IN  /\ nhandled' = nhandled + n
        /\ IF echoed
           THEN pc' = next /\ err' = err /\ nraised' = nraised + n
           ELSE pc' = "except" /\ err' = <<"BrokenPipeError">>
                /\ nraised' = nraised + n + 1

InfoProbeChython ==
  /\ cmd = "info" /\ pc = "probe_chython"
  /\ Probe("probe_rdkit")
  /\ Frame({"nhandled"})

InfoProbeRdkit ==
  /\ cmd = "info" /\ pc = "probe_rdkit"
  /\ Probe("return")
  /\ Frame({"nhandled"})

\* ----------------------------------------------------- the command boundary
\* The operation each command's except clause names in its message.
Prefix(c) ==
  CASE c = "circus"    -> "Error calculating CircuS descriptors: "
    [] c = "rdkit"     -> "Error calculating RDKit descriptors: "
    [] c = "complex"   -> "Error calculating complex descriptors: "
    [] c = "optimize"  -> "Error during model optimization: "
    [] c = "rebuild"   -> "Error during model rebuilding: "
    [] c = "coloratom" -> "Error creating ColorAtom visualization: "
    [] c = "plot"      -> "Error generating plot: "
    [] c = "init"      -> "Error creating configuration: "
    [] c = "info"      -> "Error getting system info: "

\* Wrap that lets an exception that is already a ClickException through as it
\* is, without the operation's name.
WrapUnlessClick(c, e) == IF e[1] = "Column '" THEN e ELSE <<Prefix(c)>> \o e

\* except Exception as e: raise click.ClickException(f"<operation>: {str(e)}")
Wrap(c, e) == <<Prefix(c)>> \o e

\* The except clause of the running command, and click showing the
\* ClickException it raises and exiting with its exit code, 1.
Except ==
  /\ pc = "except"
  /\ ncaught' = ncaught + 1
  /\ msg' = Wrap(cmd, err)
  /\ exit' = "fail"
  /\ pc' = "done"
  /\ UNCHANGED <<cmd, opts, df, config, tstate, fits, explains, descriptors,
                 out, trace, err, argv, original_argv, nraised, nhandled>>

\* The command body ran to its end: exit code 0.
ReturnOk ==
  /\ pc = "return"
  /\ exit' = "ok"
  /\ pc' = "done"
  /\ UNCHANGED <<cmd, opts, df, config, tstate, fits, explains, descriptors,
                 out, trace, err, msg, argv, original_argv, nraised, ncaught,
                 nhandled>>

\* ------------------------------------------------------------ invocation
Invoke(c, o, first) ==
  /\ cmd = "none" /\ pc = "idle"
  /\ cmd' = c /\ opts' = o /\ pc' = first
  /\ UNCHANGED <<df, config, tstate, fits, explains, descriptors, out, trace,
                 err, exit, msg, argv, original_argv, nraised, ncaught, nhandled>>

StartCircus == \E o \in CircusOpts : Invoke("circus", o, "echo_loading")
StartRdkit == \E o \in RdkitOpts : Invoke("rdkit", o, "echo_loading")
StartComplex == \E o \in ComplexOpts : Invoke("complex", o, "echo_config")
StartOptimize == \E o \in StubOpts : Invoke("optimize", o, "echo_loading")
StartRebuild == \E o \in StubOpts : Invoke("rebuild", o, "echo_loading")
StartPlot == \E o \in PlotOpts : Invoke("plot", o, "set_argv")
StartColoratom == \E o \in ColoratomOpts : Invoke("coloratom", o, "load_model")
StartInit == \E o \in InitOpts : Invoke("init", o, "build")
StartInfo == Invoke("info", DefaultOpts, "imports")

Next ==
  \/ StartCircus \/ CircusEchoLoading \/ CircusLoad \/ CircusCheckColumn
  \/ CircusEchoLoaded \/ CircusConstruct \/ CircusFit \/ CircusTransform
  \/ CircusAddIDs \/ CircusWrite \/ CircusEchoSaved
  \/ StartRdkit \/ RdkitEchoLoading \/ RdkitLoad \/ RdkitCheckColumn
  \/ RdkitEchoLoaded \/ RdkitConstruct \/ RdkitTransform
  \/ RdkitAddIDs \/ RdkitWrite \/ RdkitEchoSaved
  \/ StartComplex \/ ComplexEchoConfig \/ ComplexLoadConfig \/ ComplexEchoLoading
  \/ ComplexLoad \/ ComplexEchoLoaded \/ ComplexConstruct \/ ComplexTransform
  \/ ComplexWrite \/ ComplexEchoSaved
  \/ StartOptimize \/ OptimizeEchoLoading \/ OptimizeSetArgv \/ OptimizeEcho
  \/ OptimizeRestore
  \/ StartRebuild \/ RebuildEchoLoading \/ RebuildSetArgv \/ RebuildEcho
  \/ RebuildRestore
  \/ StartPlot \/ PlotSetArgv \/ PlotEcho \/ PlotRestore
  \/ StartColoratom \/ ColoratomLoadModel \/ ColoratomEchoAnalyzing
  \/ ColoratomConstruct \/ ColoratomFit \/ ColoratomCreate \/ ColoratomExplain
  \/ ColoratomSavefig \/ ColoratomEchoSaved \/ ColoratomShow
  \/ StartInit \/ InitBuild \/ InitWrite \/ InitEchoCreated
  \/ StartInfo \/ InfoImports \/ InfoEchoVersions \/ InfoProbeChython
  \/ InfoProbeRdkit
  \/ Except \/ ReturnOk

Spec == Init /\ [][Next]_vars

\* ------------------------------------------------------ reading the trace
Called(op) == \E i \in 1..Len(trace) : trace[i] = op
Pos(op) == CHOOSE i \in 1..Len(trace) : trace[i] = op
Before(a, b) == Called(a) /\ Called(b) /\ Pos(a) < Pos(b)
Count(op) == Cardinality({i \in 1..Len(trace) : trace[i] = op})
Mentions(m, word) == \E i \in 1..Len(m) : m[i] = word

\* read_csv returned a table.
Loaded == Called("load") /\ err # <<"read_csv: cannot parse file">>

\* The commands that write an artifact, and the stub commands.
Writers == {"circus", "rdkit", "complex", "coloratom", "init"}
Stubs == {"optimize", "rebuild", "plot"}

\* The case of C1: circus or rdkit loaded a table without the structure column.
StructureColumnMissing ==
  /\ cmd \in {"circus", "rdkit"}
  /\ Loaded
  /\ opts.smiles_column \notin df.cols

\* C1: when circus or rdkit has loaded a table that lacks the column named by
\* --smiles-column, no transformer is constructed, fit or transformed, the
\* output file is never written, the body goes nowhere but to its except
\* clause, and the command ends in failure with a message that contains the
\* configured column name.
C1_MissingStructureColumnFails ==
  StructureColumnMissing =>
    /\ ~Called("construct") /\ ~Called("fit") /\ ~Called("transform")
    /\ ~Called("write") /\ out = Absent
    /\ pc \in {"check", "except", "done"}
    /\ (pc = "done" => exit = "fail" /\ Mentions(msg, opts.smiles_column))

C1_Witness ==
  /\ StructureColumnMissing /\ cmd = "rdkit" /\ pc = "done" /\ exit = "fail"
  /\ opts.smiles_column = "solvent" /\ "SMILES" \in df.cols

\* C2: a command that writes an artifact and ends in failure has not written
\* its output file (the write is the last step that can fail).
C2_NoOutputOnFailure ==
  (cmd \in Writers /\ exit = "fail") => out = Absent

\* The transformer of the running command learns a vocabulary.
VocabularyDependent ==
  \/ cmd = "circus"
  \/ cmd = "complex" /\ config.inner = "circus"
  \/ cmd = "coloratom" /\ opts.descriptor_type = "circus"

\* C3: within one invocation the transformer is fit at most once, and
\* transform is never invoked on a vocabulary-dependent transformer (circus,
\* or a composite with a vocabulary-learning inner transformer) that was not
\* fit before.
C3_TransformOnlyAfterFit ==
  /\ Count("fit") <= 1
  /\ (VocabularyDependent /\ Called("transform")) => Before("fit", "transform")

\* C4: a table written by circus or rdkit has as many rows as the input, its
\* first column is ID, and row i of it is row i of the input's id column when
\* that column exists, and i when it does not.
C4_IdColumnFollowsInput ==
  (cmd \in {"circus", "rdkit"} /\ out.written) =>
    /\ out.nrows = df.n
    /\ out.columns[1] = "ID"
    /\ out.id = IF opts.id_column \in df.cols
                THEN ToList(df, opts.id_column)
                ELSE [i \in 1..df.n |-> IntCell(i - 1)]

\* C5: every table written by circus, rdkit or complex has one row per input
\* row and ID as its first column, followed by feature columns only.
C5_TableStartsWithID ==
  (cmd \in {"circus", "rdkit", "complex"} /\ out.written) =>
    /\ out.nrows = df.n
    /\ Len(out.columns) >= 1
    /\ out.columns[1] = "ID"
    /\ \A k \in 2..Len(out.columns) : out.columns[k] # "ID"

\* The message names the command's operation once, in front of the error.
WrappedOnce ==
  /\ Len(msg) >= 1
  /\ msg[1] = Prefix(cmd)
  /\ Cardinality({i \in 1..Len(msg) : msg[i] = Prefix(cmd)}) = 1
  /\ msg = <<Prefix(cmd)>> \o err

\* C6 as stated: every error raised inside a command body is caught once at
\* the command boundary and ends the command in one failure whose message
\* names the operation once.
C6_EveryErrorSurfaces ==
  pc = "done" =>
    /\ nraised = ncaught
    /\ ncaught <= 1
    /\ (nraised > 0 <=> exit = "fail")
    /\ (exit = "fail" => WrappedOnce)

\* C6, amended: every error raised inside a command body and not taken by a
\* handler inside the body (info's import probes) is caught once at the command
\* boundary and ends the command in one failure whose message names the
\* operation once, in front of the error's own message; only info has such
\* inner handlers; no call is made twice.
C6_UnhandledErrorSurfacesOnce ==
  /\ nraised - nhandled = (IF err = <<>> THEN 0 ELSE 1)
  /\ (err # <<>> => pc \in {"except", "done"} /\ exit # "ok")
  /\ (nhandled > 0 => cmd = "info")
  /\ ncaught <= 1
  /\ \A i, j \in 1..Len(trace) : trace[i] = trace[j] => i = j
  /\ pc = "done" =>
       /\ ncaught = nraised - nhandled
       /\ (ncaught = 1 <=> exit = "fail")
       /\ (ncaught = 0 <=> exit = "ok")
       /\ (exit = "fail" => WrappedOnce)

C6_Witness ==
  /\ cmd = "circus" /\ pc = "done" /\ exit = "fail" /\ ncaught = 1
  /\ msg = <<"Error calculating CircuS descriptors: ", "Column '", "SMILES",
             "' not found in input file">>

\* The case of C7: complex called transform on a table that lacks a column the
\* configuration declares.
DeclaredColumnMissing ==
  /\ cmd = "complex"
  /\ Called("transform")
  /\ MissingColumns(config, df) # {}

C8_NoMisalignedID ==
  (cmd \in {"circus", "rdkit"} /\ out.written) =>
    /\ Len(out.id) = out.nrows
    /\ \A i \in 1..Len(out.id) :
         /\ out.id[i] # NaN
         /\ out.id[i][2] = i - 1

\* C9 as stated: for every --descriptor-type, coloratom fits the transformer
\* on [smiles] before it calls explain on that smiles, after loading the model.
C9_FitBeforeExplainAlways ==
  (cmd = "coloratom" /\ Called("explain")) =>
    /\ fits = << <<opts.smiles>> >>
    /\ Before("load_model", "fit")
    /\ Before("fit", "explain")
    /\ explains = <<opts.smiles>>

\* C9, amended: for --descriptor-type circus, coloratom fits the transformer
\* on exactly [smiles] before it calls explain on that smiles; for morgan and
\* rdkfp no fit is made at all; the model is loaded before either step, and
\* savefig and show happen only after explain has returned.
C9_CircusFitBeforeExplain ==
  cmd = "coloratom" =>
    /\ Called("explain") =>
         /\ explains = <<opts.smiles>>
         /\ Before("load_model", "explain")
         /\ IF opts.descriptor_type = "circus"
            THEN fits = << <<opts.smiles>> >> /\ Before("fit", "explain")
            ELSE fits = <<>> /\ ~Called("fit")
    /\ Called("fit") => Before("load_model", "fit")
    /\ Called("savefig") => Before("explain", "savefig")
    /\ Called("show") => Before("explain", "show")
    /\ (Called("savefig") \/ Called("show") \/ out.written) =>
         ~Mentions(err, "AttributionError")

C9_Witness ==
  /\ cmd = "coloratom" /\ opts.descriptor_type = "circus"
  /\ pc = "done" /\ exit = "ok"
  /\ fits = << << <<"c1ccccc1", 0>> >> >>
  /\ Called("savefig") /\ Called("show")

\* C10: when optimize, rebuild or plot has ended, by returning or by failing,
\* sys.argv is what it was when the command started.
C10_ArgvRestored ==
  (cmd \in Stubs /\ pc = "done") => argv = InitialArgv

\* C11: the document written by `init --descriptor-type complex` has exactly
\* the top-level keys associator, structure_columns and fmt, so that the
\* composite builder of `complex`, which receives every top-level key of the
\* document as a keyword argument, is constructed from it unchanged.
C11_InitDocumentFeedsComplex ==
  (cmd = "init" /\ opts.descriptor_type = "complex" /\ out.written) =>
    /\ out.keys = CompositeKeys
    /\ \E c \in Configs : c.keys = out.keys /\ c = config /\ ~BuildComposite(c).raised

====
